---- MODULE Spec2Model ----
(***************************************************************************)
(* TransportHandler (network/src/peer_manager/transport.rs): the loop that *)
(* takes dial requests and listener accepts, drives the pending upgrades   *)
(* in two FuturesUnordered pools, replies on each request's oneshot and    *)
(* forwards upgraded connections to PeerManager.                           *)
(*                                                                         *)
(* The loop is one task.  Its steps are the branches of the select! of     *)
(* listen(); a branch that awaits the notification channel is split at     *)
(* that await, the only suspension point inside a handler.  The transport, *)
(* the requesters and the receiver of the notification channel are the     *)
(* environment.  Time stamps (start_time, elapsed_time) only feed log      *)
(* lines and the value of the histogram samples and are left out; log      *)
(* lines are left out.                                                     *)
(***************************************************************************)
EXTENDS Integers, Sequences, FiniteSets, TLC

\* ---------------------------------------------------------------- bounds

\* number of DialPeer requests the requesters submit
MaxDials == 2
\* number of items (Ok or Err) the listener yields
MaxAccepts == 1
\* number of distinct PeerIds
NumPeers == 2
\* capacity of the notification channel
NotifCap == 1

PeerIds == 1..NumPeers
\* one NetworkAddress: the loop never branches on it
Addrs == {"addr"}
\* one TTransport::Error value, produced by dial, by an upgrade or by the listener
TransportErrors == {[io_error |-> "connection reset"]}

DialIds == 1..MaxDials
AcceptIds == 1..MaxAccepts

Inbound == "Inbound"
Outbound == "Outbound"
ConnectionOrigin == {Inbound, Outbound}

SUCCEEDED_LABEL == "succeeded"
FAILED_LABEL == "failed"

\* ---------------------------------------------------------------- values

\* An upgrade future (TTransport::Outbound / TTransport::Inbound): the
\* operation op, and its output once the transport has resolved it.
PendingUpgrade(op) == [op |-> op, state |-> "Pending"]
UpgradeOk(op, peer, addr, origin) ==
    [op |-> op, state |-> "Ok",
     connection |-> [remote_peer_id |-> peer, addr |-> addr,
                     origin |-> origin, socket |-> op]]
UpgradeErr(op, e) == [op |-> op, state |-> "Err", error |-> e]

\* PeerManagerError::from_transport_error wraps any error in the one
\* variant TransportError.
from_transport_error(e) == [variant |-> "TransportError", source |-> e]

\* format_err!("Dialed PeerId '{}' differs from expected PeerId '{}'", ..)
MismatchError(dialed, expected) ==
    [msg |-> "Dialed PeerId differs from expected PeerId",
     dialed |-> dialed, expected |-> expected]

RespOk == [ok |-> TRUE]
RespErr(err) == [ok |-> FALSE, err |-> err]
\* a oneshot on which nothing was sent
Unsent == [unsent |-> TRUE]

NoItem == [none |-> TRUE]

\* ---------------------------------------------------------------- state

VARIABLES
    transport_reqs_rx,             \* queue of TransportRequest::DialPeer
    reqs_closed,                   \* every sender of the request channel dropped
    listener_ended,                \* Fuse<Listener> has yielded None
    pending_inbound_connections,   \* FuturesUnordered of inbound upgrades
    pending_outbound_connections,  \* FuturesUnordered of outbound upgrades
    pending_connection_upgrades,   \* gauge per ConnectionOrigin
    connection_upgrade_time,       \* histogram sample counts per origin, label
    notifs,                        \* every TransportNotification the channel took
    notifs_buffered,               \* how many of them the receiver has not taken
    notifs_rx_dropped,             \* receiver of the notification channel dropped
    response_sent,                 \* per dial: the value given to response_tx.send
    response_sends,                \* per dial: number of response_tx.send calls
    response_rx,                   \* per dial: "waiting" | "dropped" | "resolved"
    pc,                            \* where the loop is
    cur,                           \* the completion a suspended handler holds
    \* history of what the environment did and what the loop was handed
    dial_req,                      \* per dial: the request as submitted
    dial_result,                   \* per dial: what transport.dial returned
    dial_calls,                    \* per dial: number of transport.dial calls
    dial_snapshot,                 \* per dial: listener_ended when it was taken
    completed_outbound,            \* per dial: the upgrade output handed to the handler
    listener_yielded,              \* number of items the listener yielded
    completed_inbound,             \* per accept: the upgrade output handed to the handler
    admit_snapshot,                \* per accept: gauge, pool, reqs_closed when admitted
    completion_log                 \* the completions in the order the pools yielded them

loopVars == <<pending_inbound_connections, pending_outbound_connections,
              pending_connection_upgrades, connection_upgrade_time, pc, cur>>
chanVars == <<transport_reqs_rx, reqs_closed, listener_ended, listener_yielded>>
notifVars == <<notifs, notifs_buffered, notifs_rx_dropped>>
respVars == <<response_sent, response_sends, response_rx>>
histVars == <<dial_req, dial_result, dial_calls, dial_snapshot, completed_outbound,
              completed_inbound, admit_snapshot, completion_log>>
vars == <<loopVars, chanVars, notifVars, respVars, histVars>>

NotYet == [state |-> "None"]

Init ==
    /\ transport_reqs_rx = <<>>
    /\ reqs_closed = FALSE
    /\ listener_ended = FALSE
    /\ pending_inbound_connections = {}
    /\ pending_outbound_connections = {}
    /\ pending_connection_upgrades = [o \in ConnectionOrigin |-> 0]
    /\ connection_upgrade_time =
           [o \in ConnectionOrigin |-> [l \in {SUCCEEDED_LABEL, FAILED_LABEL} |-> 0]]
    /\ notifs = <<>>
    /\ notifs_buffered = 0
    /\ notifs_rx_dropped = FALSE
    /\ response_sent = [d \in DialIds |-> Unsent]
    /\ response_sends = [d \in DialIds |-> 0]
    /\ response_rx = [d \in DialIds |-> "waiting"]
    /\ pc = "select"
    /\ cur = NoItem
    /\ dial_req = [d \in DialIds |-> NotYet]
    /\ dial_result = [d \in DialIds |-> "none"]
    /\ dial_calls = [d \in DialIds |-> 0]
    /\ dial_snapshot = [d \in DialIds |-> NotYet]
    /\ completed_outbound = [d \in DialIds |-> NotYet]
    /\ listener_yielded = 0
    /\ completed_inbound = [a \in AcceptIds |-> NotYet]
    /\ admit_snapshot = [a \in AcceptIds |-> NotYet]
    /\ completion_log = <<>>


\* ------------------------------------------------------- library pieces

Live == pc \notin {"ended", "panicked"}

\* oneshot::Sender::send(value): consumes the sender; the receiver gets the
\* value unless it was dropped, in which case send returns Err(value).
oneshot_send(response_tx, value) ==
    /\ response_sent' = [response_sent EXCEPT ![response_tx] = value]
    /\ response_sends' = [response_sends EXCEPT ![response_tx] = @ + 1]
    /\ response_rx' = [response_rx EXCEPT ![response_tx] =
                          IF @ = "waiting" THEN "resolved" ELSE @]

\* The dials whose oneshot sender is alive: submitted and nothing sent on it.
SenderAlive(d) == dial_req[d] # NotYet /\ response_sends[d] = 0

\* Dropping a live oneshot sender: a waiting receiver observes Canceled.
drop_senders(ds) ==
    response_rx' = [d \in DialIds |->
                       IF d \in ds /\ response_rx[d] = "waiting"
                       THEN "canceled" ELSE response_rx[d]]

TransportNotification_NewConnection(connection) ==
    [type |-> "NewConnection", connection |-> connection]

\* ------------------------------------------------------------- dial_peer

\* counters::pending_connection_upgrades(ctx, Outbound).inc()
outbound_inc(gauge) == [gauge EXCEPT ![Outbound] = @ + 1]

\* inbound_inc on a gauge that is not split by origin
inbound_inc_all_origins(gauge) == [o \in ConnectionOrigin |-> gauge[o] + 1]

\* counters::pending_connection_upgrades(ctx, Inbound).inc()
inbound_inc(gauge) == [gauge EXCEPT ![Inbound] = @ + 1]

\* outbound_dec with the decrement forgotten
outbound_dec_missing(gauge) == gauge

\* counters::pending_connection_upgrades(ctx, Outbound).dec()
outbound_dec(gauge) == [gauge EXCEPT ![Outbound] = @ - 1]

\* inbound_dec with the decrement forgotten
inbound_dec_missing(gauge) == gauge

\* counters::pending_connection_upgrades(ctx, Inbound).dec()
inbound_dec(gauge) == [gauge EXCEPT ![Inbound] = @ - 1]

\* observe on a histogram that ignores the outcome label
observe_unlabelled(hist, origin, label) ==
    [hist EXCEPT ![origin][SUCCEEDED_LABEL] = @ + 1]

\* counters::connection_upgrade_time(ctx, origin, label).observe(elapsed_time)
observe(hist, origin, label) == [hist EXCEPT ![origin][label] = @ + 1]

\* dial_peer_rejected dropping response_tx without sending on it
dial_peer_rejected_silent(response_tx, error) ==
    /\ response_rx' = [response_rx EXCEPT ![response_tx] =
                          IF @ = "waiting" THEN "canceled" ELSE @]
    /\ UNCHANGED <<response_sent, response_sends>>

\* The Err arm of transport.dial: reply at once with the wrapped error.
dial_peer_rejected(response_tx, error) ==
    oneshot_send(response_tx, RespErr(from_transport_error(error)))

\* dial_peer incrementing the gauge before it looks at the result of dial
dial_peer_counting_rejected(req, dial_out) ==
    /\ dial_calls' = [dial_calls EXCEPT ![req.response_tx] = @ + 1]
    /\ dial_snapshot' = [dial_snapshot EXCEPT ![req.response_tx] =
                             [state |-> "Taken", listener_ended |-> listener_ended]]
    /\ pending_connection_upgrades' = outbound_inc(pending_connection_upgrades)
    /\ IF dial_out.ok
       THEN /\ pending_outbound_connections' = pending_outbound_connections \cup
                   {[upgrade |-> PendingUpgrade(req.response_tx), addr |-> req.addr,
                     peer_id |-> req.peer_id, response_tx |-> req.response_tx]}
            /\ dial_result' = [dial_result EXCEPT ![req.response_tx] = "admitted"]
            /\ UNCHANGED respVars
       ELSE /\ oneshot_send(req.response_tx,
                            RespErr(from_transport_error(dial_out.error)))
            /\ dial_result' = [dial_result EXCEPT ![req.response_tx] = "rejected"]
            /\ UNCHANGED pending_outbound_connections

\* dial_peer(DialPeer(peer_id, addr, response_tx)) with dial_out the result
\* of self.transport.dial(peer_id, addr); the Some(fut) it returns is pushed
\* to pending_outbound_connections by the caller, listen().
dial_peer(req, dial_out) ==
    /\ dial_calls' = [dial_calls EXCEPT ![req.response_tx] = @ + 1]
    /\ dial_snapshot' = [dial_snapshot EXCEPT ![req.response_tx] =
                             [state |-> "Taken", listener_ended |-> listener_ended]]
    /\ IF dial_out.ok
       THEN /\ pending_connection_upgrades' =
                   outbound_inc(pending_connection_upgrades)
            /\ pending_outbound_connections' = pending_outbound_connections \cup
                   {[upgrade |-> PendingUpgrade(req.response_tx), addr |-> req.addr,
                     peer_id |-> req.peer_id, response_tx |-> req.response_tx]}
            /\ dial_result' = [dial_result EXCEPT ![req.response_tx] = "admitted"]
            /\ UNCHANGED respVars
       ELSE /\ dial_peer_rejected(req.response_tx, dial_out.error)
            /\ dial_result' = [dial_result EXCEPT ![req.response_tx] = "rejected"]
            /\ UNCHANGED <<pending_connection_upgrades,
                           pending_outbound_connections>>

\* --------------------------------------- handle_completed_outbound_upgrade

\* outbound_classify without the comparison of the peer ids
outbound_classify_unchecked(upgrade, peer_id) ==
    IF upgrade.state = "Ok"
    THEN [ok |-> TRUE, connection |-> upgrade.connection]
    ELSE [ok |-> FALSE, err |-> from_transport_error(upgrade.error)]

\* outbound_classify with the comparison of the peer ids inverted
outbound_classify_inverted(upgrade, peer_id) ==
    IF upgrade.state = "Ok"
    THEN IF upgrade.connection.remote_peer_id # peer_id
         THEN [ok |-> TRUE, connection |-> upgrade.connection]
         ELSE [ok |-> FALSE,
               err |-> from_transport_error(
                           MismatchError(upgrade.connection.remote_peer_id, peer_id))]
    ELSE [ok |-> FALSE, err |-> from_transport_error(upgrade.error)]

\* outbound_classify giving a mismatch an error variant of its own
outbound_classify_own_variant(upgrade, peer_id) ==
    IF upgrade.state = "Ok"
    THEN IF upgrade.connection.remote_peer_id = peer_id
         THEN [ok |-> TRUE, connection |-> upgrade.connection]
         ELSE [ok |-> FALSE,
               err |-> [variant |-> "IdentityMismatch",
                        source |-> MismatchError(
                                       upgrade.connection.remote_peer_id, peer_id)]]
    ELSE [ok |-> FALSE, err |-> from_transport_error(upgrade.error)]

\* The first match: a connection of another peer than the dialed one is an error.
outbound_classify(upgrade, peer_id) ==
    IF upgrade.state = "Ok"
    THEN IF upgrade.connection.remote_peer_id = peer_id
         THEN [ok |-> TRUE, connection |-> upgrade.connection]
         ELSE [ok |-> FALSE,
               err |-> from_transport_error(
                           MismatchError(upgrade.connection.remote_peer_id, peer_id))]
    ELSE [ok |-> FALSE, err |-> from_transport_error(upgrade.error)]

\* outbound_upgrade_succeeded sending Ok(()) on response_tx before the
\* notification is sent
outbound_upgrade_succeeded_reply_first(connection, response_tx) ==
    /\ connection_upgrade_time' =
           observe(connection_upgrade_time, Outbound, SUCCEEDED_LABEL)
    /\ oneshot_send(response_tx, RespOk)
    /\ pc' = "outbound_notify"
    /\ cur' = [connection |-> connection, response_tx |-> response_tx]

\* outbound_upgrade_succeeded looking at the requester first: nothing is
\* forwarded for a requester that dropped its receiver
outbound_upgrade_succeeded_checking_requester(connection, response_tx) ==
    /\ connection_upgrade_time' =
           observe(connection_upgrade_time, Outbound, SUCCEEDED_LABEL)
    /\ IF response_rx[response_tx] = "dropped"
       THEN /\ oneshot_send(response_tx, RespOk)
            /\ UNCHANGED <<pc, cur>>
       ELSE /\ pc' = "outbound_notify"
            /\ cur' = [connection |-> connection, response_tx |-> response_tx]
            /\ UNCHANGED respVars

\* The Ok arm up to the await of transport_notifs_tx.send: the sample is
\* observed, nothing has been sent on response_tx.
outbound_upgrade_succeeded(connection, response_tx) ==
    /\ connection_upgrade_time' =
           observe(connection_upgrade_time, Outbound, SUCCEEDED_LABEL)
    /\ pc' = "outbound_notify"
    /\ cur' = [connection |-> connection, response_tx |-> response_tx]
    /\ UNCHANGED respVars

\* outbound_upgrade_failed unwrapping the result of response_tx.send: a
\* requester that went away takes the loop down
outbound_upgrade_failed_unwrap(err, response_tx) ==
    /\ connection_upgrade_time' =
           observe(connection_upgrade_time, Outbound, FAILED_LABEL)
    /\ oneshot_send(response_tx, RespErr(err))
    /\ pc' = IF response_rx[response_tx] = "dropped" THEN "panicked" ELSE pc
    /\ UNCHANGED cur

\* The Err arm and the response_tx.send(response) after the match.
outbound_upgrade_failed(err, response_tx) ==
    /\ connection_upgrade_time' =
           observe(connection_upgrade_time, Outbound, FAILED_LABEL)
    /\ oneshot_send(response_tx, RespErr(err))
    /\ UNCHANGED <<pc, cur>>

\* handle_completed_outbound_upgrade answering on the reply slot of the
\* oldest dial still unanswered instead of the one that came with the
\* completion
handle_completed_outbound_upgrade_oldest_slot(upgrade, addr, peer_id, response_tx) ==
    LET unanswered == {d \in DialIds : SenderAlive(d) /\ dial_result[d] = "admitted"}
        oldest == CHOOSE d \in unanswered : \A d2 \in unanswered : d <= d2 IN
      /\ pending_connection_upgrades' = outbound_dec(pending_connection_upgrades)
      /\ LET classified == outbound_classify(upgrade, peer_id) IN
           IF classified.ok
           THEN outbound_upgrade_succeeded(classified.connection, oldest)
           ELSE outbound_upgrade_failed(classified.err, oldest)

\* The handler of outbound completions: gauge, classification, then one of
\* the two arms.
handle_completed_outbound_upgrade(upgrade, addr, peer_id, response_tx) ==
    /\ pending_connection_upgrades' = outbound_dec(pending_connection_upgrades)
    /\ LET classified == outbound_classify(upgrade, peer_id) IN
         IF classified.ok
         THEN outbound_upgrade_succeeded(classified.connection, response_tx)
         ELSE outbound_upgrade_failed(classified.err, response_tx)

\* ---------------------------------------- handle_completed_inbound_upgrade

\* handle_completed_inbound_upgrade dropping the connection unforwarded
handle_completed_inbound_upgrade_dropping(upgrade, addr) ==
    /\ pending_connection_upgrades' = inbound_dec(pending_connection_upgrades)
    /\ connection_upgrade_time' =
           observe(connection_upgrade_time, Inbound,
                   IF upgrade.state = "Ok" THEN SUCCEEDED_LABEL ELSE FAILED_LABEL)
    /\ UNCHANGED <<pc, cur>>

\* handle_completed_inbound_upgrade forwarding the connections of one peer
\* only and treating those of any other peer as failed upgrades
handle_completed_inbound_upgrade_filtering(upgrade, addr) ==
    /\ pending_connection_upgrades' = inbound_dec(pending_connection_upgrades)
    /\ IF upgrade.state = "Ok" /\ upgrade.connection.remote_peer_id = 1
       THEN /\ connection_upgrade_time' =
                   observe(connection_upgrade_time, Inbound, SUCCEEDED_LABEL)
            /\ pc' = "inbound_notify"
            /\ cur' = [connection |-> upgrade.connection]
       ELSE /\ connection_upgrade_time' =
                   observe(connection_upgrade_time, Inbound, FAILED_LABEL)
            /\ UNCHANGED <<pc, cur>>

\* the handler of inbound completions (both arms up to the await)
handle_completed_inbound_upgrade(upgrade, addr) ==
    /\ pending_connection_upgrades' = inbound_dec(pending_connection_upgrades)
    /\ IF upgrade.state = "Ok"
       THEN /\ connection_upgrade_time' =
                   observe(connection_upgrade_time, Inbound, SUCCEEDED_LABEL)
            /\ pc' = "inbound_notify"
            /\ cur' = [connection |-> upgrade.connection]
       ELSE /\ connection_upgrade_time' =
                   observe(connection_upgrade_time, Inbound, FAILED_LABEL)
            /\ UNCHANGED <<pc, cur>>

\* ------------------------------------- transport_notifs_tx.send(..).await

\* The channel takes the event when it has room.
notifs_send(event) ==
    /\ notifs' = Append(notifs, event)
    /\ notifs_buffered' = notifs_buffered + 1
    /\ UNCHANGED notifs_rx_dropped

\* The rest of handle_completed_outbound_upgrade once the send has returned
\* Ok: response = Ok(()) and response_tx.send(response).
outbound_after_notify(response_tx) == oneshot_send(response_tx, RespOk)


\* ------------------------------------------------------------ environment

Submitted == {d \in DialIds : dial_req[d] # NotYet}

\* A requester sends DialPeer(peer_id, addr, response_tx) on the request channel.
SubmitDial(peer_id, addr) ==
    /\ Live
    /\ ~reqs_closed
    /\ Cardinality(Submitted) < MaxDials
    /\ LET d == Cardinality(Submitted) + 1
           req == [peer_id |-> peer_id, addr |-> addr, response_tx |-> d] IN
         /\ transport_reqs_rx' = Append(transport_reqs_rx, req)
         /\ dial_req' = [dial_req EXCEPT ![d] = req]
    /\ UNCHANGED <<loopVars, reqs_closed, listener_ended, listener_yielded,
                   notifVars, respVars, dial_result, dial_calls, dial_snapshot,
                   completed_outbound, completed_inbound, admit_snapshot,
                   completion_log>>

\* The last sender of the request channel is dropped.
CloseRequests ==
    /\ Live
    /\ ~reqs_closed
    /\ reqs_closed' = TRUE
    /\ UNCHANGED <<loopVars, transport_reqs_rx, listener_ended, listener_yielded,
                   notifVars, respVars, histVars>>

\* A requester drops the receiving half of its oneshot before it is resolved.
DropResponseRx(d) ==
    /\ d \in Submitted
    /\ response_rx[d] = "waiting"
    /\ response_rx' = [response_rx EXCEPT ![d] = "dropped"]
    /\ UNCHANGED <<loopVars, chanVars, notifVars, response_sent, response_sends,
                   histVars>>

\* The transport resolves a pending outbound upgrade: a connection to some
\* peer (the dialed one or another), or an error.
ResolveOutbound(entry, out) ==
    /\ Live
    /\ entry \in pending_outbound_connections
    /\ entry.upgrade.state = "Pending"
    /\ pending_outbound_connections' =
           (pending_outbound_connections \ {entry})
               \cup {[entry EXCEPT !.upgrade = out]}
    /\ UNCHANGED <<pending_inbound_connections, pending_connection_upgrades,
                   connection_upgrade_time, pc, cur, chanVars, notifVars,
                   respVars, histVars>>

\* The transport resolves a pending inbound upgrade.
ResolveInbound(entry, out) ==
    /\ Live
    /\ entry \in pending_inbound_connections
    /\ entry.upgrade.state = "Pending"
    /\ pending_inbound_connections' =
           (pending_inbound_connections \ {entry})
               \cup {[entry EXCEPT !.upgrade = out]}
    /\ UNCHANGED <<pending_outbound_connections, pending_connection_upgrades,
                   connection_upgrade_time, pc, cur, chanVars, notifVars,
                   respVars, histVars>>

\* PeerManager takes a notification from the channel.
NotifReceive ==
    /\ ~notifs_rx_dropped
    /\ notifs_buffered > 0
    /\ notifs_buffered' = notifs_buffered - 1
    /\ UNCHANGED <<loopVars, chanVars, notifs, notifs_rx_dropped, respVars,
                   histVars>>

\* The receiver of the notification channel is dropped.
NotifRxDrop ==
    /\ Live
    /\ ~notifs_rx_dropped
    /\ notifs_rx_dropped' = TRUE
    /\ UNCHANGED <<loopVars, chanVars, notifs, notifs_buffered, respVars,
                   histVars>>

\* ------------------------------------------------- listen(): the select!

\* select_next_some yielding completions in the order of submission only
select_next_some_fifo(pool) ==
    {entry \in pool : /\ entry.upgrade.state # "Pending"
                      /\ \A other \in pool : other.upgrade.op >= entry.upgrade.op}

\* select_next_some never yielding a future that completed with an error
select_next_some_skipping_errors(pool) ==
    {entry \in pool : entry.upgrade.state = "Ok"}

\* FuturesUnordered::select_next_some: whichever of the pool's futures has
\* completed, in no order.
select_next_some(pool) == {entry \in pool : entry.upgrade.state # "Pending"}

\* SelectDialRequest taken while a handler is suspended at its await (the
\* handlers run as tasks of their own)
SelectDialRequest_while_suspended ==
    /\ Live
    /\ transport_reqs_rx # <<>>
    /\ \E dial_out \in {[ok |-> TRUE]}
                          \cup {[ok |-> FALSE, error |-> e] : e \in TransportErrors} :
           dial_peer(Head(transport_reqs_rx), dial_out)
    /\ transport_reqs_rx' = Tail(transport_reqs_rx)
    /\ UNCHANGED <<pending_inbound_connections, connection_upgrade_time, pc, cur,
                   reqs_closed, listener_ended, listener_yielded, notifVars,
                   dial_req, completed_outbound, completed_inbound,
                   admit_snapshot, completion_log>>

\* SelectDialRequest leaving a request the transport rejected in the queue,
\* to be dialed again
SelectDialRequest_retry ==
    /\ pc = "select"
    /\ transport_reqs_rx # <<>>
    /\ \E dial_out \in {[ok |-> TRUE]}
                          \cup {[ok |-> FALSE, error |-> e] : e \in TransportErrors} :
           /\ dial_peer(Head(transport_reqs_rx), dial_out)
           /\ transport_reqs_rx' = IF dial_out.ok THEN Tail(transport_reqs_rx)
                                   ELSE transport_reqs_rx
    /\ UNCHANGED <<pending_inbound_connections, connection_upgrade_time, pc, cur,
                   reqs_closed, listener_ended, listener_yielded, notifVars,
                   dial_req, completed_outbound, completed_inbound,
                   admit_snapshot, completion_log>>

\* dial_request = self.transport_reqs_rx.select_next_some()
SelectDialRequest ==
    /\ pc = "select"
    /\ transport_reqs_rx # <<>>
    /\ \E dial_out \in {[ok |-> TRUE]}
                          \cup {[ok |-> FALSE, error |-> e] : e \in TransportErrors} :
           dial_peer(Head(transport_reqs_rx), dial_out)
    /\ transport_reqs_rx' = Tail(transport_reqs_rx)
    /\ UNCHANGED <<pending_inbound_connections, connection_upgrade_time, pc, cur,
                   reqs_closed, listener_ended, listener_yielded, notifVars,
                   dial_req, completed_outbound, completed_inbound,
                   admit_snapshot, completion_log>>

\* incoming_connection = self.listener.select_next_some(), Ok((upgrade, addr))
SelectIncomingOk(addr) ==
    /\ pc = "select"
    /\ ~listener_ended
    /\ listener_yielded < MaxAccepts
    /\ LET a == listener_yielded + 1 IN
         /\ listener_yielded' = a
         /\ admit_snapshot' = [admit_snapshot EXCEPT ![a] =
                [state |-> "Admitted",
                 gauge |-> pending_connection_upgrades[Inbound],
                 pool |-> {e.upgrade.op : e \in pending_inbound_connections},
                 reqs_closed |-> reqs_closed]]
         /\ pending_connection_upgrades' = inbound_inc(pending_connection_upgrades)
         /\ pending_inbound_connections' = pending_inbound_connections \cup
                {[upgrade |-> PendingUpgrade(a), addr |-> addr]}
    /\ UNCHANGED <<pending_outbound_connections, connection_upgrade_time, pc, cur,
                   transport_reqs_rx, reqs_closed, listener_ended, notifVars,
                   respVars, dial_req, dial_result, dial_calls, dial_snapshot,
                   completed_outbound, completed_inbound, completion_log>>

\* SelectIncomingErr counting the failed accept as a pending inbound upgrade
SelectIncomingErr_counting(e) ==
    /\ pc = "select"
    /\ ~listener_ended
    /\ listener_yielded < MaxAccepts
    /\ listener_yielded' = listener_yielded + 1
    /\ pending_connection_upgrades' = inbound_inc(pending_connection_upgrades)
    /\ UNCHANGED <<pending_inbound_connections, pending_outbound_connections,
                   connection_upgrade_time, pc, cur, transport_reqs_rx,
                   reqs_closed, listener_ended, notifVars, respVars, histVars>>

\* incoming_connection = self.listener.select_next_some(), Err(e): logged only
SelectIncomingErr(e) ==
    /\ pc = "select"
    /\ ~listener_ended
    /\ listener_yielded < MaxAccepts
    /\ listener_yielded' = listener_yielded + 1
    /\ UNCHANGED <<loopVars, transport_reqs_rx, reqs_closed, listener_ended,
                   notifVars, respVars, histVars>>

\* ListenerEnds breaking out of the loop as soon as the listener yields None
ListenerEnds_breaking ==
    /\ pc = "select"
    /\ ~listener_ended
    /\ listener_ended' = TRUE
    /\ pc' = "ended"
    /\ UNCHANGED <<pending_inbound_connections, pending_outbound_connections,
                   pending_connection_upgrades, connection_upgrade_time, cur,
                   transport_reqs_rx, reqs_closed, listener_yielded,
                   notifVars, respVars, histVars>>

\* The listener stream ends: Fuse remembers it and the branch is disabled.
ListenerEnds ==
    /\ pc = "select"
    /\ ~listener_ended
    /\ listener_ended' = TRUE
    /\ UNCHANGED <<loopVars, transport_reqs_rx, reqs_closed, listener_yielded,
                   notifVars, respVars, histVars>>

\* (upgrade, addr, peer_id, start_time, response_tx) =
\*     pending_outbound_connections.select_next_some()
SelectOutboundCompleted(entry) ==
    /\ pc = "select"
    /\ entry \in select_next_some(pending_outbound_connections)
    /\ pending_outbound_connections' = pending_outbound_connections \ {entry}
    /\ completion_log' = Append(completion_log, <<Outbound, entry.upgrade.op>>)
    /\ completed_outbound' =
           [completed_outbound EXCEPT ![entry.response_tx] = entry.upgrade]
    /\ handle_completed_outbound_upgrade(entry.upgrade, entry.addr,
                                         entry.peer_id, entry.response_tx)
    /\ UNCHANGED <<pending_inbound_connections, chanVars, notifVars, dial_req,
                   dial_result, dial_calls, dial_snapshot, completed_inbound, admit_snapshot>>

\* (upgrade, addr, start_time) = pending_inbound_connections.select_next_some()
SelectInboundCompleted(entry) ==
    /\ pc = "select"
    /\ entry \in select_next_some(pending_inbound_connections)
    /\ pending_inbound_connections' = pending_inbound_connections \ {entry}
    /\ completion_log' = Append(completion_log, <<Inbound, entry.upgrade.op>>)
    /\ completed_inbound' =
           [completed_inbound EXCEPT ![entry.upgrade.op] = entry.upgrade]
    /\ handle_completed_inbound_upgrade(entry.upgrade, entry.addr)
    /\ UNCHANGED <<pending_outbound_connections, chanVars, notifVars, respVars,
                   dial_req, dial_result, dial_calls, dial_snapshot, completed_outbound,
                   admit_snapshot>>

\* handle_completed_outbound_upgrade resumes: the notification channel took
\* the event, then the reply is sent.
OutboundNotifySent ==
    /\ pc = "outbound_notify"
    /\ ~notifs_rx_dropped
    /\ notifs_buffered < NotifCap
    /\ notifs_send(TransportNotification_NewConnection(cur.connection))
    /\ outbound_after_notify(cur.response_tx)
    /\ pc' = "select"
    /\ cur' = NoItem
    /\ UNCHANGED <<pending_inbound_connections, pending_outbound_connections,
                   pending_connection_upgrades, connection_upgrade_time,
                   chanVars, histVars>>

\* handle_completed_inbound_upgrade resumes: the channel took the event.
InboundNotifySent ==
    /\ pc = "inbound_notify"
    /\ ~notifs_rx_dropped
    /\ notifs_buffered < NotifCap
    /\ notifs_send(TransportNotification_NewConnection(cur.connection))
    /\ pc' = "select"
    /\ cur' = NoItem
    /\ UNCHANGED <<pending_inbound_connections, pending_outbound_connections,
                   pending_connection_upgrades, connection_upgrade_time,
                   chanVars, respVars, histVars>>

\* NotifyPanic with the send error logged instead of unwrapped: the handler
\* returns and the loop selects again
NotifyPanic_log_and_continue ==
    /\ pc \in {"outbound_notify", "inbound_notify"}
    /\ notifs_rx_dropped
    /\ pc' = "select"
    /\ cur' = NoItem
    /\ UNCHANGED <<pending_inbound_connections, pending_outbound_connections,
                   pending_connection_upgrades, connection_upgrade_time,
                   chanVars, notifVars, respVars, histVars>>

\* NotifyPanic telling the requester of the dial in hand about the failure
\* before the task dies
NotifyPanic_replying ==
    /\ pc \in {"outbound_notify", "inbound_notify"}
    /\ notifs_rx_dropped
    /\ pc' = "panicked"
    /\ LET replied == IF pc = "outbound_notify" THEN {cur.response_tx} ELSE {} IN
         /\ response_sent' = [d \in DialIds |->
                IF d \in replied
                THEN RespErr(from_transport_error([io_error |-> "channel closed"]))
                ELSE response_sent[d]]
         /\ response_sends' = [d \in DialIds |->
                IF d \in replied THEN response_sends[d] + 1 ELSE response_sends[d]]
         /\ response_rx' = [d \in DialIds |->
                IF response_rx[d] # "waiting" THEN response_rx[d]
                ELSE IF d \in replied THEN "resolved"
                ELSE IF SenderAlive(d) THEN "canceled"
                ELSE response_rx[d]]
    /\ UNCHANGED <<pending_inbound_connections, pending_outbound_connections,
                   pending_connection_upgrades, connection_upgrade_time, cur,
                   chanVars, notifVars, histVars>>

\* .send(event).await.unwrap() with the receiver dropped: the task panics.
\* Unwinding drops self and both pools, so every oneshot sender the loop or
\* the request channel still holds is dropped.  cur and the pools keep the
\* value they had when the frame died.
NotifyPanic ==
    /\ pc \in {"outbound_notify", "inbound_notify"}
    /\ notifs_rx_dropped
    /\ pc' = "panicked"
    /\ drop_senders({d \in DialIds : SenderAlive(d)})
    /\ UNCHANGED <<pending_inbound_connections, pending_outbound_connections,
                   pending_connection_upgrades, connection_upgrade_time, cur,
                   chanVars, notifVars, response_sent, response_sends, histVars>>

\* SelectComplete breaking as soon as no completion is ready, whatever is
\* still pending in the pools
SelectComplete_ready_only ==
    /\ pc = "select"
    /\ reqs_closed
    /\ transport_reqs_rx = <<>>
    /\ listener_ended
    /\ select_next_some(pending_outbound_connections) = {}
    /\ select_next_some(pending_inbound_connections) = {}
    /\ pc' = "ended"
    /\ UNCHANGED <<pending_inbound_connections, pending_outbound_connections,
                   pending_connection_upgrades, connection_upgrade_time, cur,
                   chanVars, notifVars, respVars, histVars>>

\* SelectComplete looking at the request channel and the listener only
SelectComplete_inputs_only ==
    /\ pc = "select"
    /\ reqs_closed
    /\ transport_reqs_rx = <<>>
    /\ listener_ended
    /\ pc' = "ended"
    /\ UNCHANGED <<pending_inbound_connections, pending_outbound_connections,
                   pending_connection_upgrades, connection_upgrade_time, cur,
                   chanVars, notifVars, respVars, histVars>>

\* complete => break: every branch is terminated, that is the request
\* channel is closed and drained, the listener has ended and both
\* FuturesUnordered are empty.
SelectComplete ==
    /\ pc = "select"
    /\ reqs_closed
    /\ transport_reqs_rx = <<>>
    /\ listener_ended
    /\ pending_outbound_connections = {}
    /\ pending_inbound_connections = {}
    /\ pc' = "ended"
    /\ UNCHANGED <<pending_inbound_connections, pending_outbound_connections,
                   pending_connection_upgrades, connection_upgrade_time, cur,
                   chanVars, notifVars, respVars, histVars>>

OutboundResults(entry) ==
    {UpgradeOk(entry.upgrade.op, q, entry.addr, Outbound) : q \in PeerIds}
        \cup {UpgradeErr(entry.upgrade.op, e) : e \in TransportErrors}

InboundResults(entry) ==
    {UpgradeOk(entry.upgrade.op, q, entry.addr, Inbound) : q \in PeerIds}
        \cup {UpgradeErr(entry.upgrade.op, e) : e \in TransportErrors}

Next ==
    \/ \E p \in PeerIds, a \in Addrs : SubmitDial(p, a)
    \/ CloseRequests
    \/ \E d \in DialIds : DropResponseRx(d)
    \/ \E entry \in pending_outbound_connections :
           \E out \in OutboundResults(entry) : ResolveOutbound(entry, out)
    \/ \E entry \in pending_inbound_connections :
           \E out \in InboundResults(entry) : ResolveInbound(entry, out)
    \/ NotifReceive
    \/ NotifRxDrop
    \/ SelectDialRequest
    \/ \E a \in Addrs : SelectIncomingOk(a)
    \/ \E e \in TransportErrors : SelectIncomingErr(e)
    \/ ListenerEnds
    \/ \E entry \in pending_outbound_connections : SelectOutboundCompleted(entry)
    \/ \E entry \in pending_inbound_connections : SelectInboundCompleted(entry)
    \/ OutboundNotifySent
    \/ InboundNotifySent
    \/ NotifyPanic
    \/ SelectComplete

Spec == Init /\ [][Next]_vars


\* One iteration of the loop in listen(), or the resumption of the handler
\* it is suspended in.
LoopStep ==
    \/ SelectDialRequest
    \/ \E a \in Addrs : SelectIncomingOk(a)
    \/ \E e \in TransportErrors : SelectIncomingErr(e)
    \/ ListenerEnds
    \/ \E entry \in pending_outbound_connections : SelectOutboundCompleted(entry)
    \/ \E entry \in pending_inbound_connections : SelectInboundCompleted(entry)
    \/ OutboundNotifySent
    \/ InboundNotifySent
    \/ SelectComplete

\* The steps of a run in which PeerManager keeps its receiver of the
\* notification channel.
LiveNext ==
    \/ \E p \in PeerIds, a \in Addrs : SubmitDial(p, a)
    \/ CloseRequests
    \/ \E d \in DialIds : DropResponseRx(d)
    \/ \E entry \in pending_outbound_connections :
           \E out \in OutboundResults(entry) : ResolveOutbound(entry, out)
    \/ \E entry \in pending_inbound_connections :
           \E out \in InboundResults(entry) : ResolveInbound(entry, out)
    \/ NotifReceive
    \/ LoopStep

\* The executor polls the task of listen() whenever it can make progress,
\* and PeerManager keeps taking notifications from the channel.
LiveSpec ==
    Init /\ [][LiveNext]_vars /\ WF_vars(LoopStep) /\ WF_vars(NotifReceive)

\* ------------------------------------------------------ derived notions

\* the loop took the request from the channel and ran dial_peer on it
Taken(d) == dial_result[d] # "none"

InOutboundPool(d) == \E e \in pending_outbound_connections : e.response_tx = d

\* the loop is inside handle_completed_outbound_upgrade for dial d, at the await
HandlingOutbound(d) == pc = "outbound_notify" /\ cur.response_tx = d

\* the loop panicked inside handle_completed_outbound_upgrade for dial d
AbortedOutbound(d) ==
    pc = "panicked" /\ "response_tx" \in DOMAIN cur /\ cur.response_tx = d

HandlingInbound(a) ==
    pc = "inbound_notify" /\ cur.connection.socket = a

AbortedInbound(a) ==
    pc = "panicked" /\ "response_tx" \notin DOMAIN cur /\ cur.connection.socket = a

\* the outbound upgrade of dial d was handed to the handler as a Connection
\* of the requested peer
OutboundSuccess(d) ==
    /\ completed_outbound[d].state = "Ok"
    /\ completed_outbound[d].connection.remote_peer_id = dial_req[d].peer_id

OutboundMismatch(d) ==
    /\ completed_outbound[d].state = "Ok"
    /\ completed_outbound[d].connection.remote_peer_id # dial_req[d].peer_id

OutboundFailed(d) == completed_outbound[d].state = "Err"

InboundSuccess(a) == completed_inbound[a].state = "Ok"

\* the notifications delivered for the upgrade op of the given origin
NotifsOf(origin, op) ==
    {i \in DOMAIN notifs : /\ notifs[i].connection.origin = origin
                           /\ notifs[i].connection.socket = op}

\* --------------------------------------------------------------- claims

\* C1 as stated: every DialRequest the loop has taken and is done with
\* (rejected at once, or its completion handled) has had its reply slot
\* resolved exactly once.
C1_ExactlyOnceReply ==
    \A d \in DialIds :
        (Taken(d) /\ ~InOutboundPool(d) /\ ~HandlingOutbound(d))
            => response_sends[d] = 1

\* C1 amended: a reply slot is never resolved more than once and never
\* before the request is taken; it is resolved exactly once when the
\* transition handling the request ran to its end, and never when the loop
\* panicked while forwarding that dial's Connection to a dropped receiver.
C1_AtMostOnceReply ==
    \A d \in DialIds :
        /\ response_sends[d] <= 1
        /\ ~Taken(d) => response_sends[d] = 0
        /\ (InOutboundPool(d) \/ HandlingOutbound(d)) => response_sends[d] = 0
        /\ (Taken(d) /\ ~InOutboundPool(d) /\ ~HandlingOutbound(d))
               => response_sends[d] = (IF AbortedOutbound(d) THEN 0 ELSE 1)

C1_Witness ==
    \E d1, d2 \in DialIds :
        /\ dial_result[d1] = "rejected" /\ response_sends[d1] = 1
        /\ OutboundSuccess(d2) /\ response_sends[d2] = 1
        /\ pc = "select"

\* C2: an outbound upgrade that yields a Connection of another peer than the
\* requested one is answered with an error and forwards nothing.
C2_IdentityInvariant ==
    \A d \in DialIds :
        OutboundMismatch(d) =>
            /\ response_sends[d] = 1
            /\ ~response_sent[d].ok
            /\ response_sent[d].err = from_transport_error(
                   MismatchError(completed_outbound[d].connection.remote_peer_id,
                                 dial_req[d].peer_id))
            /\ NotifsOf(Outbound, d) = {}
            /\ ~HandlingOutbound(d)

C2_Witness ==
    \E d \in DialIds : OutboundMismatch(d) /\ response_rx[d] = "resolved"

\* C3: each gauge equals the size of its pool, hence zero when nothing is in
\* flight, and the outbound gauge is the number of admitted dials whose
\* completion the loop has not taken yet.
C3_CounterConsistency ==
    /\ pending_connection_upgrades[Outbound] =
           Cardinality(pending_outbound_connections)
    /\ pending_connection_upgrades[Inbound] =
           Cardinality(pending_inbound_connections)
    /\ pending_connection_upgrades[Outbound] =
           Cardinality({d \in DialIds : /\ dial_result[d] = "admitted"
                                        /\ completed_outbound[d] = NotYet})
    /\ pending_connection_upgrades[Inbound] =
           Cardinality({a \in AcceptIds : /\ admit_snapshot[a] # NotYet
                                          /\ completed_inbound[a] = NotYet})

C3_Witness ==
    /\ pending_connection_upgrades[Outbound] = 1
    /\ pending_connection_upgrades[Inbound] = 1
    /\ \E d \in DialIds : completed_outbound[d] # NotYet

\* C4 as stated: every successful upgrade the loop is done with has exactly
\* one Connection delivered to the notification channel.
C4_ExactlyOneNotification ==
    /\ \A d \in DialIds :
           (OutboundSuccess(d) /\ ~HandlingOutbound(d))
               => Cardinality(NotifsOf(Outbound, d)) = 1
    /\ \A a \in AcceptIds :
           (InboundSuccess(a) /\ ~HandlingInbound(a))
               => Cardinality(NotifsOf(Inbound, a)) = 1

\* C4 amended: no upgrade is ever notified twice; a successful upgrade has
\* exactly one Connection delivered once its handler ran to its end, and
\* none when the loop panicked forwarding it to a dropped receiver.
C4_NoDuplicateNotification ==
    /\ \A d \in DialIds :
           /\ Cardinality(NotifsOf(Outbound, d)) <= 1
           /\ (OutboundSuccess(d) /\ ~HandlingOutbound(d))
                  => Cardinality(NotifsOf(Outbound, d)) =
                         (IF AbortedOutbound(d) THEN 0 ELSE 1)
    /\ \A a \in AcceptIds :
           /\ Cardinality(NotifsOf(Inbound, a)) <= 1
           /\ (InboundSuccess(a) /\ ~HandlingInbound(a))
                  => Cardinality(NotifsOf(Inbound, a)) =
                         (IF AbortedInbound(a) THEN 0 ELSE 1)

C4_Witness ==
    /\ \E d \in DialIds : OutboundSuccess(d) /\ NotifsOf(Outbound, d) # {}
    /\ \E a \in AcceptIds : InboundSuccess(a) /\ NotifsOf(Inbound, a) # {}
    /\ pc = "select"


\* position of a completion in the order the pools yielded them (0: not yet)
CompletionIndex(origin, op) ==
    IF \E i \in DOMAIN completion_log : completion_log[i] = <<origin, op>>
    THEN CHOOSE i \in DOMAIN completion_log : completion_log[i] = <<origin, op>>
    ELSE 0

\* the reply handle_completed_outbound_upgrade owes dial d for the upgrade
\* output it was handed
ExpectedResponse(d) ==
    IF OutboundSuccess(d) THEN RespOk
    ELSE IF OutboundMismatch(d)
    THEN RespErr(from_transport_error(
             MismatchError(completed_outbound[d].connection.remote_peer_id,
                           dial_req[d].peer_id)))
    ELSE RespErr(from_transport_error(completed_outbound[d].error))

\* C5: completions are taken in the order the transport resolves them, not
\* in submission order: a resolved upgrade can be taken whatever the state
\* of the upgrades submitted before it, notifications are delivered in the
\* order the completions were taken, every reply sent for a handled
\* completion is the one its own upgrade output calls for, and it is sent
\* once the completion is a failure or its Connection has been delivered.
C5_CompletionOrder ==
    /\ \A e \in pending_outbound_connections :
           (pc = "select" /\ e.upgrade.state # "Pending")
               => ENABLED SelectOutboundCompleted(e)
    /\ \A i, j \in DOMAIN notifs :
           i < j => CompletionIndex(notifs[i].connection.origin,
                                    notifs[i].connection.socket)
                      < CompletionIndex(notifs[j].connection.origin,
                                        notifs[j].connection.socket)
    /\ \A d \in DialIds :
           (completed_outbound[d] # NotYet /\ response_sends[d] > 0)
               => response_sent[d] = ExpectedResponse(d)
    /\ \A d \in DialIds :
           (completed_outbound[d] # NotYet
                /\ (~OutboundSuccess(d) \/ NotifsOf(Outbound, d) # {}))
               => response_sends[d] = 1

\* dial 1 (A) was submitted before dial 2 (B); B completed first and was
\* notified and answered while A was pending, then A completed and was
\* notified and answered
C5_Witness ==
    /\ MaxDials >= 2
    /\ Len(notifs) = 2
    /\ notifs[1].connection.socket = 2 /\ notifs[1].connection.origin = Outbound
    /\ notifs[2].connection.socket = 1 /\ notifs[2].connection.origin = Outbound
    /\ response_sent[1] = RespOk /\ response_sent[2] = RespOk
    /\ response_rx[1] = "resolved" /\ response_rx[2] = "resolved"

\* the error kind of a PeerManagerError
ErrorKind(err) == err.variant

Rejected(d) == dial_result[d] = "rejected"

\* C6 as stated: the replies to a rejected dial, a failed upgrade and a
\* mismatched identity carry three different error kinds.
C6_DistinctErrorKinds ==
    \A d1, d2 \in DialIds :
        /\ (Rejected(d1) /\ OutboundFailed(d2))
               => ErrorKind(response_sent[d1].err) # ErrorKind(response_sent[d2].err)
        /\ (Rejected(d1) /\ OutboundMismatch(d2))
               => ErrorKind(response_sent[d1].err) # ErrorKind(response_sent[d2].err)
        /\ (OutboundFailed(d1) /\ OutboundMismatch(d2))
               => ErrorKind(response_sent[d1].err) # ErrorKind(response_sent[d2].err)

\* C6 amended: a reply is Ok(()) or Err(from_transport_error(e)); rejection,
\* upgrade failure and mismatch all give the kind TransportError, a
\* rejection and an upgrade failure with the same transport error give the
\* same reply, and only the wrapped error tells a mismatch apart.
C6_OneErrorKind ==
    /\ \A d \in DialIds :
           response_sends[d] > 0 =>
               /\ response_sent[d].ok <=> OutboundSuccess(d)
               /\ ~response_sent[d].ok =>
                      /\ ErrorKind(response_sent[d].err) = "TransportError"
                      /\ Rejected(d) \/ OutboundFailed(d) \/ OutboundMismatch(d)
                      /\ Rejected(d) \/ OutboundFailed(d)
                             => response_sent[d].err.source \in TransportErrors
                      /\ OutboundMismatch(d)
                             => response_sent[d].err.source =
                                    MismatchError(
                                        completed_outbound[d].connection.remote_peer_id,
                                        dial_req[d].peer_id)
    /\ \A d1, d2 \in DialIds :
           (Rejected(d1) /\ OutboundFailed(d2)
                /\ response_sent[d1].err.source = completed_outbound[d2].error)
               => response_sent[d1] = response_sent[d2]

C6_Witness ==
    \E d1, d2 \in DialIds :
        /\ OutboundFailed(d1) /\ OutboundMismatch(d2)
        /\ response_rx[d1] = "resolved" /\ response_rx[d2] = "resolved"
        /\ ErrorKind(response_sent[d1].err) = ErrorKind(response_sent[d2].err)
        /\ response_sent[d1] # response_sent[d2]

\* C7: the transition in which transport.dial rejects a request sends the
\* error on its reply slot and changes neither pool nor gauge.
C7_ImmediateRejection ==
    [][\A d \in DialIds :
           (dial_result[d] = "none" /\ dial_result'[d] = "rejected")
               => /\ response_sends[d] = 0
                  /\ response_sends'[d] = 1
                  /\ ~response_sent'[d].ok
                  /\ response_sent'[d].err.source \in TransportErrors
                  /\ pending_outbound_connections' = pending_outbound_connections
                  /\ pending_inbound_connections' = pending_inbound_connections
                  /\ pending_connection_upgrades' = pending_connection_upgrades
                  /\ \A o \in DialIds \ {d} :
                         /\ response_sends'[o] = response_sends[o]
                         /\ response_sent'[o] = response_sent[o]]_vars

C7_Witness ==
    \E d \in DialIds :
        /\ Rejected(d)
        /\ response_rx[d] = "resolved"
        /\ pending_connection_upgrades[Outbound] = 1

\* C8: the transition that takes a failed inbound upgrade forwards nothing,
\* touches no reply slot, takes one off the inbound gauge (back to the
\* value at admission when the other pending inbound upgrades are those of
\* then) and leaves the loop at its select.
C8_InboundFailure ==
    [][\A a \in AcceptIds :
           (completed_inbound[a] = NotYet /\ completed_inbound'[a].state = "Err")
               => /\ notifs' = notifs
                  /\ notifs_buffered' = notifs_buffered
                  /\ respVars' = respVars
                  /\ pending_connection_upgrades'[Inbound] =
                         pending_connection_upgrades[Inbound] - 1
                  /\ pending_connection_upgrades'[Outbound] =
                         pending_connection_upgrades[Outbound]
                  /\ ({e.upgrade.op : e \in pending_inbound_connections'}
                          = admit_snapshot[a].pool
                        => pending_connection_upgrades'[Inbound]
                               = admit_snapshot[a].gauge)
                  /\ pc' = "select"]_vars

C8_Witness ==
    \E a \in AcceptIds :
        /\ completed_inbound[a].state = "Err"
        /\ pending_connection_upgrades[Inbound] = admit_snapshot[a].gauge
        /\ notifs = <<>>
        /\ pc = "select"

\* C9: inside the handler of a successful outbound upgrade the gauge is
\* already decremented and nothing is sent on the reply slot while the
\* Connection is being forwarded; Ok is sent only once the channel took the
\* Connection, and is sent as soon as it did.
C9_OutboundSuccessOrdering ==
    /\ \A d \in DialIds :
           HandlingOutbound(d) =>
               /\ OutboundSuccess(d)
               /\ ~InOutboundPool(d)
               /\ pending_connection_upgrades[Outbound] =
                      Cardinality(pending_outbound_connections)
               /\ NotifsOf(Outbound, d) = {}
               /\ response_sends[d] = 0
               /\ response_rx[d] # "resolved"
    /\ \A d \in DialIds :
           (response_sends[d] > 0 /\ response_sent[d] = RespOk)
               => /\ OutboundSuccess(d)
                  /\ \E i \in DOMAIN notifs :
                         notifs[i] = TransportNotification_NewConnection(
                                         completed_outbound[d].connection)
    /\ \A d \in DialIds :
           NotifsOf(Outbound, d) # {}
               => response_sends[d] = 1 /\ response_sent[d] = RespOk

C9_Witness ==
    \E d \in DialIds :
        /\ OutboundSuccess(d)
        /\ response_rx[d] = "resolved"
        /\ response_sent[d] = RespOk
        /\ NotifsOf(Outbound, d) # {}

\* C10: every notification is the Connection of an upgrade that completed
\* successfully, of the requested peer if outbound; a rejected dial, a
\* failed upgrade and a mismatched identity have none.
C10_NotificationsFromSuccess ==
    /\ \A i \in DOMAIN notifs :
           LET c == notifs[i].connection IN
             /\ notifs[i].type = "NewConnection"
             /\ c.origin = Outbound =>
                    /\ c.socket \in DialIds
                    /\ OutboundSuccess(c.socket)
                    /\ completed_outbound[c.socket].connection = c
             /\ c.origin = Inbound =>
                    /\ c.socket \in AcceptIds
                    /\ InboundSuccess(c.socket)
                    /\ completed_inbound[c.socket].connection = c
    /\ \A d \in DialIds :
           (Rejected(d) \/ OutboundFailed(d) \/ OutboundMismatch(d))
               => NotifsOf(Outbound, d) = {}
    /\ \A a \in AcceptIds :
           completed_inbound[a].state = "Err" => NotifsOf(Inbound, a) = {}
    /\ Len(notifs) <= Cardinality({d \in DialIds : OutboundSuccess(d)})
                        + Cardinality({a \in AcceptIds : InboundSuccess(a)})

C10_Witness ==
    /\ Len(notifs) = 1
    /\ listener_yielded = MaxAccepts
    /\ \A a \in AcceptIds : admit_snapshot[a] = NotYet
    /\ \E d1, d2 \in DialIds :
           /\ Rejected(d1)
           /\ OutboundSuccess(d2)
           /\ NotifsOf(Outbound, d2) # {}


\* sequence s is the beginning of sequence t: nothing was taken from the
\* front of a queue that went from s to t
IsPrefix(s, t) == Len(s) <= Len(t) /\ SubSeq(t, 1, Len(s)) = s

\* the loop is suspended inside a handler, at the await of the send
Suspended == pc \in {"outbound_notify", "inbound_notify"}

PoolOps(pool) == {e.upgrade.op : e \in pool}

\* C11: while a handler is suspended at the send to the notification
\* channel the loop takes no dial request, no listener item and no pool
\* completion and changes no gauge; with the channel full it does not move
\* at all, and it leaves the await only with the Connection taken by the
\* channel (or by the panic on a dropped receiver).
C11_Backpressure ==
    [][Suspended =>
           /\ IsPrefix(transport_reqs_rx, transport_reqs_rx')
           /\ dial_result' = dial_result
           /\ dial_calls' = dial_calls
           /\ listener_yielded' = listener_yielded
           /\ listener_ended' = listener_ended
           /\ completion_log' = completion_log
           /\ completed_outbound' = completed_outbound
           /\ completed_inbound' = completed_inbound
           /\ PoolOps(pending_outbound_connections')
                  = PoolOps(pending_outbound_connections)
           /\ PoolOps(pending_inbound_connections')
                  = PoolOps(pending_inbound_connections)
           /\ pending_connection_upgrades' = pending_connection_upgrades
           /\ pc' \in {pc, "select", "panicked"}
           /\ (notifs_buffered = NotifCap /\ ~notifs_rx_dropped)
                  => /\ pc' = pc /\ cur' = cur
                     /\ notifs' = notifs
                     /\ response_sends' = response_sends
           /\ pc' = "select"
                  => notifs' = Append(notifs,
                         TransportNotification_NewConnection(cur.connection))]_vars

\* the loop is stalled on a full channel while a dial request is waiting
\* in the request channel and the listener is still open
C11_Witness ==
    /\ Suspended
    /\ notifs_buffered = NotifCap
    /\ ~notifs_rx_dropped
    /\ transport_reqs_rx # <<>>
    /\ ~listener_ended


\* what the loop has consumed, admitted, counted, forwarded and replied
LoopFootprint ==
    <<dial_result, dial_calls, listener_yielded, listener_ended,
      completion_log, completed_outbound, completed_inbound,
      PoolOps(pending_outbound_connections),
      PoolOps(pending_inbound_connections),
      pending_connection_upgrades, connection_upgrade_time,
      notifs, response_sent, response_sends>>

\* C12: a send to the notification channel whose receiver was dropped is
\* fatal: the only step the suspended handler can take is the panic, the
\* Connection is not forwarded, and after the panic the loop takes no dial
\* request, no listener item and no completion, whatever is waiting.
C12_FatalNotificationFailure ==
    /\ [](Suspended /\ notifs_rx_dropped
              => /\ ENABLED NotifyPanic
                 /\ ~ENABLED OutboundNotifySent
                 /\ ~ENABLED InboundNotifySent)
    /\ [][/\ (Suspended /\ notifs_rx_dropped)
                 => /\ pc' \in {pc, "panicked"}
                    /\ LoopFootprint' = LoopFootprint
                    /\ IsPrefix(transport_reqs_rx, transport_reqs_rx')
          /\ pc = "panicked"
                 => /\ pc' = "panicked"
                    /\ cur' = cur
                    /\ LoopFootprint' = LoopFootprint
                    /\ transport_reqs_rx' = transport_reqs_rx]_vars

\* the loop has aborted on the send while a dial request, an open listener
\* and a completed inbound upgrade were waiting for it
C12_Witness ==
    /\ pc = "panicked"
    /\ notifs_rx_dropped
    /\ transport_reqs_rx # <<>>
    /\ ~listener_ended
    /\ select_next_some(pending_inbound_connections) # {}


\* C13: no automatic retry.  transport.dial is called exactly once for each
\* DialRequest the loop takes and never for one it has not taken; a taken
\* request is gone from the request channel; a request that was rejected,
\* or whose upgrade was handed to the handler (failure, mismatch or
\* success), is not in the outbound pool again.
C13_NoRetry ==
    \A d \in DialIds :
        /\ dial_calls[d] <= 1
        /\ Taken(d) <=> dial_calls[d] = 1
        /\ Taken(d) =>
               \A i \in DOMAIN transport_reqs_rx :
                   transport_reqs_rx[i].response_tx # d
        /\ Rejected(d) => ~InOutboundPool(d)
        /\ completed_outbound[d] # NotYet => ~InOutboundPool(d)
        /\ Cardinality({e \in pending_outbound_connections :
                            e.response_tx = d}) <= 1

\* a rejected dial and a dial whose upgrade failed or came back with another
\* peer's identity have both been dealt with, and the loop has gone on to
\* take every request from the channel without dialing either again
C13_Witness ==
    /\ pc = "select"
    /\ transport_reqs_rx = <<>>
    /\ \E d \in DialIds : Rejected(d) /\ dial_calls[d] = 1
    /\ \E d \in DialIds :
           /\ OutboundMismatch(d) \/ OutboundFailed(d)
           /\ response_sends[d] = 1
           /\ dial_calls[d] = 1


\* the request channel is closed and drained and the listener has ended
InputsExhausted ==
    reqs_closed /\ transport_reqs_rx = <<>> /\ listener_ended

NoCompletionReady ==
    /\ select_next_some(pending_outbound_connections) = {}
    /\ select_next_some(pending_inbound_connections) = {}

StillPending ==
    {e \in pending_outbound_connections \cup pending_inbound_connections :
         e.upgrade.state = "Pending"}

\* C14 as stated: with the request channel and the listener exhausted and no
\* completion ready, the loop terminates (leaving what is still pending in
\* the pools).
C14_TerminatesWhenNothingReady ==
    (pc = "select" /\ InputsExhausted /\ NoCompletionReady)
        => ENABLED SelectComplete

\* C14: the loop terminates exactly when the request channel and the
\* listener are exhausted and both pools are empty; while a PendingUpgrade
\* remains in a pool the loop does not terminate, so at termination nothing
\* is left in a pool to abandon.
C14_TerminatesWhenPoolsEmpty ==
    /\ ENABLED SelectComplete <=>
           /\ pc = "select"
           /\ InputsExhausted
           /\ pending_outbound_connections = {}
           /\ pending_inbound_connections = {}
    /\ (pc = "select" /\ StillPending # {}) => ~ENABLED SelectComplete
    /\ pc = "ended" => StillPending = {}

\* inputs exhausted, no completion ready, a PendingUpgrade in a pool: the
\* loop is waiting for it at the select
C14_Witness ==
    /\ pc = "select"
    /\ InputsExhausted
    /\ NoCompletionReady
    /\ StillPending # {}
    /\ ~ENABLED SelectComplete

\* C15: when the loop has left through complete => break the request
\* channel is closed and drained, the listener is exhausted, both pools
\* are empty, both gauges are zero, and every dial request ever submitted
\* has had its reply slot resolved.
C15_StateAtNormalExit ==
    pc = "ended" =>
        /\ reqs_closed
        /\ transport_reqs_rx = <<>>
        /\ listener_ended
        /\ pending_outbound_connections = {}
        /\ pending_inbound_connections = {}
        /\ pending_connection_upgrades[Outbound] = 0
        /\ pending_connection_upgrades[Inbound] = 0
        /\ cur = NoItem
        /\ \A d \in Submitted :
               /\ Taken(d)
               /\ response_sends[d] = 1
               /\ response_sent[d] # Unsent
               /\ response_rx[d] # "canceled"

\* the loop has ended normally after admitting an outbound and an inbound
\* upgrade, both of which it handled before leaving
C15_Witness ==
    /\ pc = "ended"
    /\ \E d \in DialIds : dial_result[d] = "admitted" /\ response_sends[d] = 1
    /\ \E a \in AcceptIds : completed_inbound[a] # NotYet


\* this step calls response_tx.send for dial d and the receiver is gone
FailedReply(d) ==
    /\ response_sends'[d] = response_sends[d] + 1
    /\ response_rx[d] = "dropped"

\* C16: a reply to a requester that dropped its receiver is non-fatal.  The
\* step that makes the failed send ends with the loop back at its select;
\* in dial_peer it changes no gauge and no pool; in the failure arm of
\* handle_completed_outbound_upgrade the entry has left the pool and the
\* outbound gauge has gone down by one, exactly as for a requester that is
\* waiting; after a delivered notification nothing but the reply slot is
\* touched.  The inbound side is never affected and the outbound gauge
\* equals the size of the outbound pool afterwards.
C16_ReplyAbandoned ==
    [][\A d \in DialIds :
           FailedReply(d) =>
               /\ pc' = "select"
               /\ cur' = NoItem
               /\ response_rx'[d] = "dropped"
               /\ pending_inbound_connections' = pending_inbound_connections
               /\ pending_connection_upgrades'[Inbound]
                      = pending_connection_upgrades[Inbound]
               /\ pending_connection_upgrades'[Outbound]
                      = Cardinality(pending_outbound_connections')
               /\ \/ /\ dial_result[d] = "none"
                     /\ dial_result'[d] = "rejected"
                     /\ pending_connection_upgrades' = pending_connection_upgrades
                     /\ pending_outbound_connections' = pending_outbound_connections
                  \/ /\ pc = "select"
                     /\ InOutboundPool(d)
                     /\ pending_outbound_connections' =
                            {e \in pending_outbound_connections : e.response_tx # d}
                     /\ pending_connection_upgrades'[Outbound]
                            = pending_connection_upgrades[Outbound] - 1
                  \/ /\ HandlingOutbound(d)
                     /\ pending_connection_upgrades' = pending_connection_upgrades
                     /\ pending_outbound_connections' = pending_outbound_connections]_vars

\* the upgrade of a dial whose requester had gone away failed, the reply
\* was attempted, and the loop went on to handle the next completion and
\* resolve its requester
C16_Witness ==
    \E d1, d2 \in DialIds :
        /\ d1 # d2
        /\ OutboundFailed(d1)
        /\ response_rx[d1] = "dropped"
        /\ response_sends[d1] = 1
        /\ completed_outbound[d2] # NotYet
        /\ CompletionIndex(Outbound, d1) < CompletionIndex(Outbound, d2)
        /\ response_rx[d2] = "resolved"
        /\ pc = "select"


\* C17: when the loop has aborted while forwarding the Connection of a
\* successful outbound upgrade, nothing was and nothing will be sent on that
\* dial's reply slot: the sender was dropped with the frame, and a requester
\* still holding the receiver sees it canceled.
C17_AbortLeavesReplyUnresolved ==
    \A d \in DialIds :
        AbortedOutbound(d) =>
            /\ OutboundSuccess(d)
            /\ NotifsOf(Outbound, d) = {}
            /\ response_sends[d] = 0
            /\ response_sent[d] = Unsent
            /\ response_rx[d] \in {"canceled", "dropped"}
            /\ ~ENABLED (Next /\ response_sends'[d] # 0)

\* the requester was still waiting when the loop aborted on its dial: its
\* receiver is canceled, no value was sent
C17_Witness ==
    \E d \in DialIds :
        /\ AbortedOutbound(d)
        /\ response_rx[d] = "canceled"
        /\ response_sends[d] = 0


\* this step takes an item from the listener and the item is an error
AcceptError ==
    /\ listener_yielded' = listener_yielded + 1
    /\ admit_snapshot'[listener_yielded'] = NotYet

\* C18: an item of the listener that is an error changes neither gauge,
\* admits nothing to either pool, sends on no reply slot and sends no
\* notification; the loop is at its select afterwards with the listener
\* still open and every queued request and pooled upgrade as it was.
C18_AcceptLevelError ==
    [][AcceptError =>
           /\ pending_connection_upgrades' = pending_connection_upgrades
           /\ connection_upgrade_time' = connection_upgrade_time
           /\ pending_inbound_connections' = pending_inbound_connections
           /\ pending_outbound_connections' = pending_outbound_connections
           /\ UNCHANGED respVars
           /\ UNCHANGED notifVars
           /\ transport_reqs_rx' = transport_reqs_rx
           /\ dial_calls' = dial_calls
           /\ completion_log' = completion_log
           /\ pc = "select" /\ pc' = "select"
           /\ ~listener_ended']_vars

\* the listener has yielded an error, nothing was admitted for it, and the
\* loop is at its select with a dial request and a completed outbound
\* upgrade it can take next
C18_Witness ==
    /\ listener_yielded = 1
    /\ admit_snapshot[1] = NotYet
    /\ pending_connection_upgrades[Inbound] = 0
    /\ pc = "select"
    /\ ENABLED SelectDialRequest
    /\ select_next_some(pending_outbound_connections) # {}


\* C19: no identity check on inbound.  Every inbound upgrade taken from the
\* pool with a Connection, of whatever remote_peer_id, puts the handler at
\* the send of exactly that Connection; when the send returns it is that
\* Connection the channel took; and every inbound notification in the
\* channel is the Connection its upgrade produced.
C19_InboundForwardedAsIs ==
    /\ [][\A a \in AcceptIds :
              (completed_inbound[a] = NotYet /\ completed_inbound'[a].state = "Ok")
                  => /\ pc' = "inbound_notify"
                     /\ cur' = [connection |-> completed_inbound'[a].connection]
                     /\ connection_upgrade_time'[Inbound][SUCCEEDED_LABEL]
                            = connection_upgrade_time[Inbound][SUCCEEDED_LABEL] + 1]_vars
    /\ [][(pc = "inbound_notify" /\ pc' = "select")
              => notifs' = Append(notifs,
                     TransportNotification_NewConnection(cur.connection))]_vars
    /\ [](\A i \in DOMAIN notifs :
              notifs[i].connection.origin = Inbound
                  => /\ InboundSuccess(notifs[i].connection.socket)
                     /\ notifs[i].connection
                            = completed_inbound[notifs[i].connection.socket].connection)
    /\ [](\A a \in AcceptIds :
              (InboundSuccess(a) /\ pc = "select")
                  => NotifsOf(Inbound, a) # {})

\* the Connection of an inbound upgrade has been forwarded for the last of
\* the peer ids, which no dial request ever named
C19_Witness ==
    /\ \E i \in DOMAIN notifs :
           /\ notifs[i].connection.origin = Inbound
           /\ notifs[i].connection.remote_peer_id = NumPeers
    /\ \A d \in Submitted : dial_req[d].peer_id # NumPeers
    /\ pc = "select"


\* the upgrade of dial d is in the outbound pool and its operation has resolved
ReadyOutbound(d) ==
    \E e \in pending_outbound_connections :
        e.response_tx = d /\ e.upgrade.state # "Pending"

\* the upgrade of accept a is in the inbound pool and its operation has resolved
ReadyInbound(a) ==
    \E e \in pending_inbound_connections :
        e.upgrade.op = a /\ e.upgrade.state # "Pending"

\* handle_completed_outbound_upgrade has run to its end for dial d
HandledOutbound(d) ==
    /\ completed_outbound[d] # NotYet
    /\ ~InOutboundPool(d)
    /\ ~HandlingOutbound(d)
    /\ response_sends[d] = 1
    /\ OutboundSuccess(d) => NotifsOf(Outbound, d) # {}

\* handle_completed_inbound_upgrade has run to its end for accept a
HandledInbound(a) ==
    /\ completed_inbound[a] # NotYet
    /\ \A e \in pending_inbound_connections : e.upgrade.op # a
    /\ ~HandlingInbound(a)
    /\ InboundSuccess(a) => NotifsOf(Inbound, a) # {}

\* C20: when the task of the loop is scheduled fairly and the notification
\* channel keeps being drained, every upgrade in a pool whose operation has
\* resolved is eventually handled to the end: taken from its pool, its
\* Connection in the notification channel if it succeeded, and for an
\* outbound one its reply slot sent on.
C20_NoOutcomeDropped ==
    /\ \A d \in DialIds : ReadyOutbound(d) ~> HandledOutbound(d)
    /\ \A a \in AcceptIds : ReadyInbound(a) ~> HandledInbound(a)

\* an outbound failure and an inbound success have both been handled to the
\* end while the channel could only hold one notification at a time
C20_Witness ==
    /\ \E d \in DialIds : OutboundFailed(d) /\ HandledOutbound(d)
    /\ \E d \in DialIds : OutboundSuccess(d) /\ HandledOutbound(d)
    /\ \E a \in AcceptIds : InboundSuccess(a) /\ HandledInbound(a)
    /\ ~notifs_rx_dropped


\* C21: reply/request pairing.  Every entry of the outbound pool carries the
\* upgrade, the address, the peer id and the reply slot of one and the same
\* DialRequest; the completion handed to the handler for dial d is the
\* output of d's own upgrade; what is sent on d's reply slot is computed
\* from that output and d's own peer id; and a step that sends on one reply
\* slot touches no other.
C21_ReplyRequestPairing ==
    /\ [](\A e \in pending_outbound_connections :
              /\ e.upgrade.op = e.response_tx
              /\ dial_req[e.response_tx] =
                     [peer_id |-> e.peer_id, addr |-> e.addr,
                      response_tx |-> e.response_tx])
    /\ [](\A d \in DialIds :
              /\ completed_outbound[d] # NotYet => completed_outbound[d].op = d
              /\ HandlingOutbound(d)
                     => cur.connection = completed_outbound[d].connection
              /\ response_sends[d] > 0 =>
                     IF Rejected(d)
                     THEN /\ completed_outbound[d] = NotYet
                          /\ ~response_sent[d].ok
                     ELSE /\ completed_outbound[d] # NotYet
                          /\ response_sent[d] = ExpectedResponse(d))
    /\ [][\A d \in DialIds :
              response_sends'[d] # response_sends[d] =>
                  \A d2 \in DialIds \ {d} :
                      /\ response_sent'[d2] = response_sent[d2]
                      /\ response_sends'[d2] = response_sends[d2]
                      /\ response_rx'[d2] = response_rx[d2]]_vars

\* two dials to different peers were pending together; the later one
\* completed first, with the Connection of its own peer, and was answered
\* Ok; the earlier one then came back with that same peer's Connection and
\* was answered with the mismatch against its own peer id
C21_Witness ==
    \E d1, d2 \in Submitted :
        /\ d1 < d2
        /\ dial_req[d1].peer_id # dial_req[d2].peer_id
        /\ OutboundSuccess(d2)
        /\ OutboundMismatch(d1)
        /\ completed_outbound[d1].connection.remote_peer_id = dial_req[d2].peer_id
        /\ CompletionIndex(Outbound, d2) < CompletionIndex(Outbound, d1)
        /\ response_sent[d2] = RespOk
        /\ response_sends[d1] = 1
        /\ ~response_sent[d1].ok


\* the requester of dial d dropped the receiver of its reply slot
ReplyAbandoned(d) == response_rx[d] = "dropped"

\* C22: a successful outbound upgrade of the requested peer is forwarded
\* although the requester has dropped its receiver.  The completion puts
\* the handler at the send of that Connection and delivers nothing yet; the
\* send can proceed whenever the channel has room and a receiver; when it
\* returns the Connection is in the channel and only then the reply is
\* attempted; the Connection is never in the channel twice, and is there
\* once when the handler has run to its end.
C22_AbandonedReplyStillNotified ==
    /\ [][\A d \in DialIds :
              (/\ ReplyAbandoned(d)
               /\ completed_outbound[d] = NotYet
               /\ completed_outbound'[d].state = "Ok"
               /\ completed_outbound'[d].connection.remote_peer_id
                      = dial_req[d].peer_id)
                  => /\ pc' = "outbound_notify"
                     /\ cur' = [connection |-> completed_outbound'[d].connection,
                                response_tx |-> d]
                     /\ notifs' = notifs
                     /\ response_sends'[d] = 0]_vars
    /\ [][\A d \in DialIds :
              (ReplyAbandoned(d) /\ HandlingOutbound(d) /\ pc' = "select")
                  => /\ notifs' = Append(notifs,
                            TransportNotification_NewConnection(
                                completed_outbound[d].connection))
                     /\ response_sends'[d] = 1
                     /\ response_rx'[d] = "dropped"]_vars
    /\ [](\A d \in DialIds :
              (ReplyAbandoned(d) /\ OutboundSuccess(d)) =>
                  /\ Cardinality(NotifsOf(Outbound, d)) <= 1
                  /\ (HandlingOutbound(d) /\ ~notifs_rx_dropped
                          /\ notifs_buffered < NotifCap)
                         => ENABLED OutboundNotifySent
                  /\ (~HandlingOutbound(d) /\ ~AbortedOutbound(d))
                         => Cardinality(NotifsOf(Outbound, d)) = 1)

\* the requester had gone away, the upgrade succeeded with the requested
\* peer, its Connection is in the channel and the failed reply was the
\* last thing the handler did
C22_Witness ==
    \E d \in DialIds :
        /\ ReplyAbandoned(d)
        /\ OutboundSuccess(d)
        /\ Cardinality(NotifsOf(Outbound, d)) = 1
        /\ response_sends[d] = 1
        /\ pc = "select"


\* dial d was taken from the request channel after the listener had ended
TakenAfterListenerEnd(d) ==
    dial_snapshot[d] # NotYet /\ dial_snapshot[d].listener_ended

\* accept a was admitted after the request channel had been closed
AdmittedAfterClose(a) ==
    admit_snapshot[a] # NotYet /\ admit_snapshot[a].reqs_closed

\* C23: one exhausted input does not stop the loop.  With the listener
\* ended the loop at its select still takes a queued DialRequest and any
\* completed upgrade; with the request channel closed it still takes the
\* next item of the listener and any completed upgrade; the step in which
\* an input ends leaves the loop where it was; and the loop ends only with
\* both inputs exhausted.
C23_OneExhaustedInputDoesNotStop ==
    /\ []((pc = "select" /\ listener_ended /\ transport_reqs_rx # <<>>)
              => ENABLED SelectDialRequest)
    /\ []((pc = "select" /\ reqs_closed /\ ~listener_ended
               /\ listener_yielded < MaxAccepts)
              => ENABLED (\E a \in Addrs : SelectIncomingOk(a)))
    /\ []((pc = "select" /\ (listener_ended \/ reqs_closed))
              => /\ \A e \in pending_outbound_connections :
                        e.upgrade.state # "Pending"
                            => ENABLED SelectOutboundCompleted(e)
                 /\ \A e \in pending_inbound_connections :
                        e.upgrade.state # "Pending"
                            => ENABLED SelectInboundCompleted(e))
    /\ [](~InputsExhausted => ~ENABLED SelectComplete /\ pc # "ended")
    /\ [][(listener_ended' # listener_ended \/ reqs_closed' # reqs_closed)
              => pc' = pc /\ pc' # "ended"]_vars

\* the request channel was closed, then an accept was admitted and its
\* upgrade handled; the listener ended, then a dial request was taken and
\* its upgrade handled and answered
C23_Witness ==
    /\ listener_ended
    /\ reqs_closed
    /\ \E a \in AcceptIds :
           /\ AdmittedAfterClose(a)
           /\ completed_inbound[a] # NotYet
    /\ \E d \in DialIds :
           /\ TakenAfterListenerEnd(d)
           /\ completed_outbound[d] # NotYet
           /\ response_sends[d] = 1


\* this step runs dial_peer, takes an outbound completion, or resumes the
\* outbound handler (to its end or to the panic)
OutboundTransition ==
    \/ dial_calls' # dial_calls
    \/ completed_outbound' # completed_outbound
    \/ pc = "outbound_notify" /\ pc' # pc

\* this step takes an item of the listener, takes an inbound completion,
\* or resumes the inbound handler (to its end or to the panic)
InboundTransition ==
    \/ listener_yielded' # listener_yielded
    \/ completed_inbound' # completed_inbound
    \/ pc = "inbound_notify" /\ pc' # pc

\* admission leaves the entries already in the pool as they are
AdmissionFrame ==
    /\ \A d \in DialIds :
           (dial_result[d] = "none" /\ dial_result'[d] = "admitted")
               => /\ pending_outbound_connections \subseteq pending_outbound_connections'
                  /\ Cardinality(pending_outbound_connections')
                         = Cardinality(pending_outbound_connections) + 1
    /\ \A a \in AcceptIds :
           (admit_snapshot[a] = NotYet /\ admit_snapshot'[a] # NotYet)
               => /\ pending_inbound_connections \subseteq pending_inbound_connections'
                  /\ Cardinality(pending_inbound_connections')
                         = Cardinality(pending_inbound_connections) + 1

OutboundFrame ==
    OutboundTransition
        => /\ pending_inbound_connections' = pending_inbound_connections
           /\ pending_connection_upgrades'[Inbound]
                  = pending_connection_upgrades[Inbound]

\* C24 as stated: admission disturbs no pending entry, an outbound
\* transition leaves the inbound pool and gauge alone, and an inbound
\* transition leaves the outbound pool, the outbound gauge and every reply
\* slot alone.
C24_PoolIndependence ==
    [][/\ AdmissionFrame
       /\ OutboundFrame
       /\ InboundTransition
              => /\ pending_outbound_connections' = pending_outbound_connections
                 /\ pending_connection_upgrades'[Outbound]
                        = pending_connection_upgrades[Outbound]
                 /\ UNCHANGED respVars]_vars

\* C24 amended: as above, except that an inbound completion whose send to
\* the notification channel panics drops the oneshot senders the task
\* holds: nothing is sent on any reply slot, but every requester still
\* waiting sees its receiver canceled.
C24_PoolIndependenceUnlessPanic ==
    [][/\ AdmissionFrame
       /\ OutboundFrame
       /\ InboundTransition
              => /\ pending_outbound_connections' = pending_outbound_connections
                 /\ pending_connection_upgrades'[Outbound]
                        = pending_connection_upgrades[Outbound]
                 /\ response_sent' = response_sent
                 /\ response_sends' = response_sends
                 /\ pc' # "panicked" => response_rx' = response_rx
                 /\ pc' = "panicked" =>
                        \A d \in DialIds :
                            response_rx'[d] =
                                IF SenderAlive(d) /\ response_rx[d] = "waiting"
                                THEN "canceled" ELSE response_rx[d]]_vars

\* a dial was admitted to the outbound pool next to one whose upgrade had
\* already resolved, and an accept next to both: all three are waiting
\* for the loop
C24_Witness ==
    /\ Cardinality(pending_outbound_connections) = 2
    /\ select_next_some(pending_outbound_connections) # {}
    /\ StillPending \cap pending_outbound_connections # {}
    /\ Cardinality(pending_inbound_connections) = 1
    /\ pending_connection_upgrades = [o \in ConnectionOrigin |->
                                          IF o = Outbound THEN 2 ELSE 1]
    /\ pc = "select"


\* the number of samples observed under an origin and a label
Observed(origin, label) == connection_upgrade_time[origin][label]

\* C25: outcome recording.  The step that takes a completion from a pool
\* observes exactly one sample, under that pool's origin, labelled
\* succeeded exactly when the handler goes on to send the Connection and
\* failed otherwise; no other step observes anything, an immediate
\* rejection in particular.  Hence the samples per origin and label count
\* the completions of that kind, a mismatched identity among the failed.
C25_OutcomeRecording ==
    /\ [][IF Len(completion_log') = Len(completion_log) + 1
          THEN LET origin == completion_log'[Len(completion_log')][1] IN
                 connection_upgrade_time' =
                     observe(connection_upgrade_time, origin,
                             IF pc' \in {"outbound_notify", "inbound_notify"}
                             THEN SUCCEEDED_LABEL ELSE FAILED_LABEL)
          ELSE connection_upgrade_time' = connection_upgrade_time]_vars
    /\ [](/\ Observed(Outbound, SUCCEEDED_LABEL)
                 = Cardinality({d \in DialIds : OutboundSuccess(d)})
          /\ Observed(Outbound, FAILED_LABEL)
                 = Cardinality({d \in DialIds :
                                    OutboundMismatch(d) \/ OutboundFailed(d)})
          /\ Observed(Inbound, SUCCEEDED_LABEL)
                 = Cardinality({a \in AcceptIds : InboundSuccess(a)})
          /\ Observed(Inbound, FAILED_LABEL)
                 = Cardinality({a \in AcceptIds :
                                    completed_inbound[a].state = "Err"})
          /\ Observed(Outbound, SUCCEEDED_LABEL) + Observed(Outbound, FAILED_LABEL)
               + Observed(Inbound, SUCCEEDED_LABEL) + Observed(Inbound, FAILED_LABEL)
                 = Len(completion_log))

\* one dial was rejected at once, one came back with another peer's
\* identity and one inbound upgrade succeeded: one failed outbound sample,
\* one succeeded inbound sample, nothing else
C25_Witness ==
    /\ \E d \in DialIds : Rejected(d) /\ response_sends[d] = 1
    /\ \E d \in DialIds : OutboundMismatch(d)
    /\ \E a \in AcceptIds : InboundSuccess(a)
    /\ Observed(Outbound, SUCCEEDED_LABEL) = 0
    /\ Observed(Outbound, FAILED_LABEL) = 1
    /\ Observed(Inbound, SUCCEEDED_LABEL) = 1
    /\ Observed(Inbound, FAILED_LABEL) = 0

====
